---- MODULE Spec2Model ----
(***************************************************************************)
(* Model of hoag/hoag_kernel.py, function _minimize_lbfgsb: the HOAG outer *)
(* loop (adaptive-step descent on the hyperparameter lambdak with an       *)
(* inner tolerance epsilon_tol that is decayed every iteration).           *)
(*                                                                         *)
(* Numbers.  The program computes in IEEE doubles; the model computes in   *)
(* exact rational arithmetic.  A number is                                 *)
(*      (+/-) mag / (2^e[2] * 3^e[3] * 5^e[5] * 7^e[7])                    *)
(* with mag an unbounded natural kept as a little-endian sequence of       *)
(* base-10000 digits (the constants 1e-3 and 1e-24 and their products do   *)
(* not fit 32-bit integers), or +infinity (np.inf).  Every number is kept  *)
(* in lowest terms, so equal values are equal records.                     *)
(*                                                                         *)
(* Shapes.  The hyperparameter has one component (lambda0 = 0. is the      *)
(* default of the signature), so linalg.norm is the absolute value.  The   *)
(* inner solution x0 and the gradient g_grad only travel between the       *)
(* oracles and are not represented; what the oracles return to the control *)
(* flow (loss, cg solution and info, cross derivatives) is chosen freely   *)
(* from small sets at every iteration.                                     *)
(***************************************************************************)
EXTENDS Integers, Sequences, FiniteSets, TLC

\* ------------------------------------------------------------------------
\* Unbounded naturals
\* ------------------------------------------------------------------------
Base == 10^4

Primes == {2, 3, 5, 7}

RECURSIVE BNorm(_)
BNorm(s) ==
  IF s = <<>> THEN <<>>
  ELSE IF s[Len(s)] = 0 THEN BNorm(SubSeq(s, 1, Len(s) - 1))
  ELSE s

RECURSIVE BFromNat(_)
BFromNat(n) ==
  IF n = 0 THEN <<>> ELSE <<n % Base>> \o BFromNat(n \div Base)

RECURSIVE BToNat(_)
BToNat(s) ==
  IF s = <<>> THEN 0 ELSE Head(s) + Base * BToNat(Tail(s))

BDigit(s) == IF s = <<>> THEN 0 ELSE Head(s)

BRest(s) == IF s = <<>> THEN <<>> ELSE Tail(s)

RECURSIVE BAddC(_, _, _)
BAddC(a, b, c) ==
  IF a = <<>> /\ b = <<>>
  THEN (IF c = 0 THEN <<>> ELSE <<c>>)
  ELSE <<(BDigit(a) + BDigit(b) + c) % Base>>
       \o BAddC(BRest(a), BRest(b), (BDigit(a) + BDigit(b) + c) \div Base)

BAdd(a, b) == BAddC(a, b, 0)

\* a - b for a >= b
RECURSIVE BSubC(_, _, _)
BSubC(a, b, c) ==
  IF a = <<>> THEN <<>>
  ELSE IF BDigit(a) - BDigit(b) - c < 0
       THEN <<BDigit(a) - BDigit(b) - c + Base>> \o BSubC(BRest(a), BRest(b), 1)
       ELSE <<BDigit(a) - BDigit(b) - c>> \o BSubC(BRest(a), BRest(b), 0)

BSub(a, b) == BNorm(BSubC(a, b, 0))

\* -1, 0, 1 as a < b, a = b, a > b (both without leading zeros)
RECURSIVE BCmpTop(_, _, _)
BCmpTop(a, b, i) ==
  IF i = 0 THEN 0
  ELSE IF a[i] < b[i] THEN -1
  ELSE IF a[i] > b[i] THEN 1
  ELSE BCmpTop(a, b, i - 1)

BCmp(a, b) ==
  IF Len(a) < Len(b) THEN -1
  ELSE IF Len(a) > Len(b) THEN 1
  ELSE BCmpTop(a, b, Len(a))

\* a * k + c for a small k (k <= Base)
RECURSIVE BMulS(_, _, _)
BMulS(a, k, c) ==
  IF a = <<>>
  THEN (IF c = 0 THEN <<>> ELSE <<c % Base>> \o BMulS(<<>>, k, c \div Base))
  ELSE <<(Head(a) * k + c) % Base>> \o BMulS(Tail(a), k, (Head(a) * k + c) \div Base)

RECURSIVE BMul(_, _)
BMul(a, b) ==
  IF a = <<>> \/ b = <<>> THEN <<>>
  ELSE BNorm(BAdd(BMulS(a, Head(b), 0), <<0>> \o BMul(a, Tail(b))))

\* remainder of a by a small k
RECURSIVE BModS(_, _)
BModS(a, k) ==
  IF a = <<>> THEN 0 ELSE (BModS(Tail(a), k) * Base + Head(a)) % k

\* quotient of a by a small k
RECURSIVE BDivS(_, _)
BDivS(a, k) ==
  IF a = <<>> THEN <<>>
  ELSE <<(BModS(Tail(a), k) * Base + Head(a)) \div k>> \o BDivS(Tail(a), k)

\* a * p^n
RECURSIVE BMulPow(_, _, _)
BMulPow(a, p, k) ==
  IF k = 0 THEN a
  ELSE IF k >= 4 THEN BMulPow(BMulS(a, p * p * p * p, 0), p, k - 4)
  ELSE BMulPow(BMulS(a, p, 0), p, k - 1)

\* ------------------------------------------------------------------------
\* Exact rationals with +infinity
\* ------------------------------------------------------------------------
NoExp == [p \in Primes |-> 0]

Zero == [inf |-> FALSE, neg |-> FALSE, mag |-> <<>>, e |-> NoExp]

Inf == [inf |-> TRUE, neg |-> FALSE, mag |-> <<>>, e |-> NoExp]

\* cancel the prime p between numerator and denominator
RECURSIVE Cancel(_, _)
Cancel(x, p) ==
  IF x.e[p] > 0 /\ BModS(x.mag, p) = 0
  THEN Cancel([x EXCEPT !.mag = BNorm(BDivS(x.mag, p)), !.e[p] = x.e[p] - 1], p)
  ELSE x

Norm(x) ==
  IF x.mag = <<>> THEN Zero
  ELSE Cancel(Cancel(Cancel(Cancel(x, 2), 3), 5), 7)

\* exponent of the prime p in the positive integer d
RECURSIVE Expo(_, _)
Expo(d, p) == IF d % p = 0 THEN 1 + Expo(d \div p, p) ELSE 0

Abs(n) == IF n < 0 THEN -n ELSE n

\* the rational n / d for machine integers n and d > 0, d a product of Primes
Rat(n, d) ==
  Norm([inf |-> FALSE, neg |-> n < 0, mag |-> BFromNat(Abs(n)),
        e |-> [p \in Primes |-> Expo(d, p)]])

\* n / 10^k
Dec(n, k) ==
  Norm([inf |-> FALSE, neg |-> n < 0, mag |-> BFromNat(Abs(n)),
        e |-> [p \in Primes |-> IF p \in {2, 5} THEN k ELSE 0]])

MaxN(i, j) == IF i >= j THEN i ELSE j

\* numerator of x over the common denominator of x and y
Scaled(x, y) ==
  BMulPow(BMulPow(BMulPow(BMulPow(x.mag,
     2, MaxN(x.e[2], y.e[2]) - x.e[2]),
     3, MaxN(x.e[3], y.e[3]) - x.e[3]),
     5, MaxN(x.e[5], y.e[5]) - x.e[5]),
     7, MaxN(x.e[7], y.e[7]) - x.e[7])

NegOf(x) ==
  IF x.inf \/ x.mag = <<>> THEN x ELSE [x EXCEPT !.neg = ~x.neg]

AbsOf(x) == [x EXCEPT !.neg = FALSE]

Add(x, y) ==
  IF x.inf \/ y.inf THEN Inf
  ELSE LET a == Scaled(x, y)
           b == Scaled(y, x)
           E == [p \in Primes |-> MaxN(x.e[p], y.e[p])]
       IN IF x.neg = y.neg
          THEN Norm([inf |-> FALSE, neg |-> x.neg, mag |-> BAdd(a, b), e |-> E])
          ELSE IF BCmp(a, b) >= 0
               THEN Norm([inf |-> FALSE, neg |-> x.neg, mag |-> BSub(a, b), e |-> E])
               ELSE Norm([inf |-> FALSE, neg |-> y.neg, mag |-> BSub(b, a), e |-> E])

Sub(x, y) == Add(x, NegOf(y))

Mul(x, y) ==
  IF x.inf \/ y.inf THEN Inf
  ELSE Norm([inf |-> FALSE, neg |-> (x.neg # y.neg), mag |-> BMul(x.mag, y.mag),
             e |-> [p \in Primes |-> x.e[p] + y.e[p]]])

\* 1 / x for a nonzero finite x whose numerator is a product of Primes
Inv(x) ==
  LET n == BToNat(x.mag)
  IN Norm([inf |-> FALSE, neg |-> x.neg,
           mag |-> BMulPow(BMulPow(BMulPow(BMulPow(<<1>>,
                     2, x.e[2]), 3, x.e[3]), 5, x.e[5]), 7, x.e[7]),
           e |-> [p \in Primes |-> Expo(n, p)]])

Div(x, y) == Mul(x, Inv(y))

Leq(x, y) ==
  IF y.inf THEN TRUE
  ELSE IF x.inf THEN FALSE
  ELSE IF x.neg /\ ~y.neg THEN TRUE
  ELSE IF ~x.neg /\ y.neg THEN FALSE
  ELSE IF x.neg
       THEN BCmp(Scaled(x, y), Scaled(y, x)) >= 0
       ELSE BCmp(Scaled(x, y), Scaled(y, x)) <= 0

Less(x, y) == Leq(x, y) /\ x # y

IsZero(x) == ~x.inf /\ x.mag = <<>>

MaxOf(x, y) == IF Leq(y, x) THEN x ELSE y

\* ------------------------------------------------------------------------
\* Python values
\* ------------------------------------------------------------------------
\* None (qk, L_lambda before their first assignment to a number)
None == [inf |-> FALSE, neg |-> TRUE, mag |-> <<>>, e |-> NoExp]

\* a local name that has not been assigned yet
Unbound == [inf |-> TRUE, neg |-> TRUE, mag |-> <<>>, e |-> NoExp]

PyInt(k) == [type |-> "int", val |-> k]

PyUnbound == [type |-> "unbound", val |-> 0]

\* `v is False`: identity with the bool singleton; no int is False
PyIsFalse(v) == v.type = "bool" /\ v.val = 0

\* ------------------------------------------------------------------------
\* Bounds of the model
\* ------------------------------------------------------------------------
\* largest maxiter a run is configured with
MaxIter == 4

\* g_func_grad returns a loss in 0..MaxLoss
MaxLoss == 1

\* splinalg.cg returns a solution qk in 0..MaxQ
MaxQ == 1

\* ------------------------------------------------------------------------
\* Configuration and oracle results
\* ------------------------------------------------------------------------
Modes == {"exponential", "quadratic", "cubic", "exact"}

\* "linear" stands for every string that is none of the four modes
ModeArgs == Modes \cup {"linear"}

MaxiterArgs == 1..MaxIter

\* maxls: the default 20 and a non-positive value
MaxlsArgs == {0, 20}

\* n = len(x0) = 1; bounds is None (replaced by n pairs) or a list of 2 pairs
n == 1

LenBoundsArgs == {n, 2}

\* info returned by splinalg.cg: 0 converged, > 0 not converged
CgInfo == {PyInt(0), PyInt(1)}

LossVals == {Rat(k, 1) : k \in 0..MaxLoss}

QVals == {Rat(k, 1) : k \in 0..MaxQ}

\* g_cross(x0, lambdak) and h_crossed(x0, lambdak) for p = d = 1
GCrossVals == {Rat(1, 1)}

HCrossedVals == {Rat(1, 1)}

lambda0 == Zero

epsilon_tol_init == Dec(1, 3)

exact_epsilon == Dec(1, 24)

\* variant: the previous loss starts at 0
g_func_old_init_zero == Zero

g_func_old_init == Inf

C == Rat(1, 1)

\* ------------------------------------------------------------------------
\* The steps of the loop body
\* ------------------------------------------------------------------------
InitTol(mode) == IF mode = "exact" THEN exact_epsilon ELSE epsilon_tol_init

\* range(1, maxiter)
LoopRange(m) == 1..(m - 1)

HyperGrad(gc, hc, q) == Sub(gc, Mul(hc, q))

\* linalg.norm of a vector of one component
NormOf(v) == AbsOf(v)

\* variant: a skipped iteration halves the tolerance
SkipTol_half(eps) == Mul(eps, Dec(5, 1))

SkipTol(eps) == Mul(eps, Dec(1, 1))

\* variant: L starts at the norm itself
InitL_unscaled(gnorm) == gnorm

InitL(gnorm) == Mul(Rat(5, 1), gnorm)

StepSize(L) == Div(Rat(1, 1), L)

\* variant: the step is taken up the gradient
NextLambda_ascent(lam, step, p) == Add(lam, Mul(step, p))

NextLambda(lam, step, p) == Sub(lam, Mul(step, p))

\* variant: the exponential schedule doubles the tolerance
DecayTol_doubling(mode, eps, i) ==
  IF mode = "quadratic" THEN Div(epsilon_tol_init, Rat(i * i, 1))
  ELSE IF mode = "cubic" THEN Div(epsilon_tol_init, Rat(i * i * i, 1))
  ELSE IF mode = "exponential" THEN Mul(eps, Rat(2, 1))
  ELSE IF mode = "exact" THEN Dec(1, 24)
  ELSE Unbound

\* the schedule before flooring; Unbound stands for `raise NotImplementedError`
DecayTol(mode, eps, i) ==
  IF mode = "quadratic" THEN Div(epsilon_tol_init, Rat(i * i, 1))
  ELSE IF mode = "cubic" THEN Div(epsilon_tol_init, Rat(i * i * i, 1))
  ELSE IF mode = "exponential" THEN Mul(eps, Dec(5, 1))
  ELSE IF mode = "exact" THEN Dec(1, 24)
  ELSE Unbound

FloorTol(eps) == MaxOf(eps, exact_epsilon)

\* variant: the test without the curvature term (L/2)*incr^2
SufficientDecrease_flat(gf, gf_old, eps, old_eps, inc, L) ==
  Leq(gf, Add(Add(gf_old, Mul(C, eps)),
              Mul(Mul(old_eps, Add(C, Rat(1, 1))), inc)))

SufficientDecrease(gf, gf_old, eps, old_eps, inc, L) ==
  Leq(gf, Sub(Add(Add(gf_old, Mul(C, eps)),
                  Mul(Mul(old_eps, Add(C, Rat(1, 1))), inc)),
              Mul(Mul(Div(L, Rat(2, 1)), inc), inc)))

AdaptL(ok, L) == IF ok THEN Mul(L, Dec(8, 1)) ELSE Mul(L, Dec(12, 1))

\* ------------------------------------------------------------------------
\* State
\* ------------------------------------------------------------------------
VARIABLES
  pc,                 \* "entry", "loop", "returned", "raised"
  tolerance_decrease, maxiter, maxls, len_bounds,      \* arguments
  it, lambdak, epsilon_tol, qk, L_lambda, g_func_old, old_grads,
  g_func, success, grad_lambda, old_lambdak, pk, step_size,
  old_epsilon_tol, incr,
  exc,                \* the exception that ended the run, "" if none
  status,             \* third component of the returned tuple, -1 before
  n_inner,            \* number of calls of h_sol_approx
  tol_passed          \* tolerance passed to h_sol_approx and cg by the last call

args == <<tolerance_decrease, maxiter, maxls, len_bounds>>

locals == <<it, lambdak, epsilon_tol, qk, L_lambda, g_func_old, old_grads,
            g_func, success, grad_lambda, old_lambdak, pk, step_size,
            old_epsilon_tol, incr>>

vars == <<pc, args, locals, exc, status, n_inner, tol_passed>>

Init ==
  /\ pc = "entry"
  /\ tolerance_decrease \in ModeArgs
  /\ maxiter \in MaxiterArgs
  /\ maxls \in MaxlsArgs
  /\ len_bounds \in LenBoundsArgs
  /\ it = 0
  /\ lambdak = lambda0
  /\ epsilon_tol = Unbound
  /\ qk = Unbound
  /\ L_lambda = Unbound
  /\ g_func_old = Unbound
  /\ old_grads = <<>>
  /\ g_func = Unbound
  /\ success = PyUnbound
  /\ grad_lambda = Unbound
  /\ old_lambdak = Unbound
  /\ pk = Unbound
  /\ step_size = Unbound
  /\ old_epsilon_tol = Unbound
  /\ incr = Unbound
  /\ exc = ""
  /\ status = -1
  /\ n_inner = 0
  /\ tol_passed = Unbound

\* lines 51-117: argument validation and initialisation
Setup ==
  /\ pc = "entry"
  /\ IF len_bounds # n \/ ~(maxls > 0)
     THEN /\ pc' = "raised"
          /\ exc' = "ValueError"
          /\ UNCHANGED <<epsilon_tol, qk, L_lambda, g_func_old>>
     ELSE /\ pc' = "loop"
          /\ exc' = ""
          /\ epsilon_tol' = InitTol(tolerance_decrease)
          /\ qk' = None
          /\ L_lambda' = None
          /\ g_func_old' = g_func_old_init
  /\ UNCHANGED <<args, it, lambdak, old_grads, g_func, success, grad_lambda,
                 old_lambdak, pk, step_size, old_epsilon_tol, incr,
                 status, n_inner, tol_passed>>

\* lines 119-195: one pass through the body of `for it in range(1, maxiter)`.
\*   inner_ok  whether h_sol_approx returns (it raises otherwise)
\*   gf        loss returned by g_func_grad
\*   info, q   second and first result of splinalg.cg
\*   gc, hc    results of g_cross and h_crossed
Iteration(inner_ok, gf, info, q, gc, hc) ==
  LET grad == HyperGrad(gc, hc, q)
      gnorm == NormOf(grad)
      L0 == IF L_lambda = None THEN InitL(gnorm) ELSE L_lambda
      step == StepSize(L0)
      lam == NextLambda(lambdak, step, grad)
      dec == DecayTol(tolerance_decrease, epsilon_tol, it + 1)
      eps1 == FloorTol(dec)
      inc == NormOf(Sub(lam, lambdak))
  IN
  /\ pc = "loop"
  /\ (it + 1) \in LoopRange(maxiter)
  /\ it' = it + 1
  /\ n_inner' = n_inner + 1
  /\ tol_passed' = epsilon_tol
  /\ UNCHANGED <<args, status>>
  /\ IF ~inner_ok
     THEN \* line 120: the exception of the oracle leaves the routine
          /\ pc' = "raised"
          /\ exc' = "OracleError"
          /\ UNCHANGED <<lambdak, epsilon_tol, qk, L_lambda, g_func_old,
                         old_grads, g_func, success, grad_lambda, old_lambdak,
                         pk, step_size, old_epsilon_tol, incr>>
     ELSE
     /\ g_func' = gf
     /\ qk' = q
     /\ success' = info
     /\ IF PyIsFalse(info)
        THEN \* lines 130-131
             /\ pc' = "raised"
             /\ exc' = "ValueError"
             /\ UNCHANGED <<lambdak, epsilon_tol, L_lambda, g_func_old,
                            old_grads, grad_lambda, old_lambdak, pk,
                            step_size, old_epsilon_tol, incr>>
        ELSE
        /\ grad_lambda' = grad
        /\ old_grads' = Append(old_grads, gnorm)
        /\ old_lambdak' = lambdak
        /\ pk' = grad
        /\ IF L_lambda = None /\ IsZero(old_grads'[Len(old_grads')])
           THEN \* lines 142-145: decrease tolerance and continue
                /\ epsilon_tol' = SkipTol(epsilon_tol)
                /\ pc' = "loop"
                /\ exc' = ""
                /\ UNCHANGED <<lambdak, L_lambda, g_func_old, step_size,
                               old_epsilon_tol, incr>>
           ELSE
           /\ step_size' = step
           /\ lambdak' = lam
           /\ old_epsilon_tol' = epsilon_tol
           /\ IF dec = Unbound
              THEN \* line 166
                   /\ pc' = "raised"
                   /\ exc' = "NotImplementedError"
                   /\ L_lambda' = L0
                   /\ UNCHANGED <<epsilon_tol, g_func_old, incr>>
              ELSE /\ epsilon_tol' = eps1
                   /\ incr' = inc
                   /\ L_lambda' = AdaptL(SufficientDecrease(gf, g_func_old,
                                           eps1, epsilon_tol, inc, L0), L0)
                   /\ g_func_old' = gf
                   /\ pc' = "loop"
                   /\ exc' = ""

\* line 197: the loop is exhausted
Return ==
  /\ pc = "loop"
  /\ (it + 1) \notin LoopRange(maxiter)
  /\ pc' = "returned"
  /\ status' = 0
  /\ UNCHANGED <<args, locals, exc, n_inner, tol_passed>>

Next ==
  \/ Setup
  \/ \E inner_ok \in BOOLEAN, gf \in LossVals, info \in CgInfo, q \in QVals,
        gc \in GCrossVals, hc \in HCrossedVals :
          Iteration(inner_ok, gf, info, q, gc, hc)
  \/ Return

Spec == Init /\ [][Next]_vars

\* ------------------------------------------------------------------------
\* Vocabulary of the properties
\* ------------------------------------------------------------------------
\* this step is a pass through the loop body in which the hypergradient
\* was assembled (h_sol_approx returned and the cg check passed)
GradStep == pc = "loop" /\ it' = it + 1 /\ Len(old_grads') = Len(old_grads) + 1

\* norm of the hypergradient assembled by this step
GradNorm == old_grads'[Len(old_grads')]

\* this step is a skipped iteration: L uninitialized and the norm exactly 0
SkipStep == GradStep /\ L_lambda = None /\ IsZero(GradNorm)

\* this step is a stepping iteration
SteppingStep == GradStep /\ ~(L_lambda = None /\ IsZero(GradNorm))

\* the L that a stepping iteration uses for its step
LUsed == IF L_lambda = None THEN Mul(Rat(5, 1), GradNorm) ELSE L_lambda

\* the last completed iteration was the first stepping iteration of the run
\* and one or more skipped iterations came before it
FirstStepAfterSkips ==
  /\ Len(old_grads) >= 2
  /\ ~IsZero(old_grads[Len(old_grads)])
  /\ \A i \in 1..(Len(old_grads) - 1) : IsZero(old_grads[i])

\* ------------------------------------------------------------------------
\* C1  Tolerance floor: the tolerance passed to h_sol_approx and to cg is
\*     never below the floor 1e-24, in every mode and after skipped
\*     iterations too.
\* ------------------------------------------------------------------------
C1_ToleranceFloor ==
  tol_passed # Unbound => Leq(Dec(1, 24), tol_passed)

\* ------------------------------------------------------------------------
\* C2  Krylov non-convergence is fatal: when cg reports that it did not
\*     converge (info different from 0), the routine has raised.
\* ------------------------------------------------------------------------
C2_CgFailureFatal ==
  (success.type = "int" /\ success.val # 0)
     => (pc = "raised" /\ exc = "ValueError")

\* ------------------------------------------------------------------------
\* C3  Step-size adaptation direction: a stepping iteration that completes
\*     multiplies the L it used by exactly 0.8 when
\*       loss <= prev_loss + C*eps + prev_eps*(C+1)*incr - (L/2)*incr^2
\*     and by exactly 1.2 otherwise (eps after decay and flooring,
\*     prev_eps the tolerance of this iteration's solves,
\*     incr = |lambda_new - lambda_old|, C = 1).
\* ------------------------------------------------------------------------
\* the right-hand side of the test
C3_Bound(prev_loss, eps, prev_eps, inc, L) ==
  Sub(Add(Add(prev_loss, eps), Mul(Mul(prev_eps, Rat(2, 1)), inc)),
      Mul(Mul(L, Rat(1, 2)), Mul(inc, inc)))

C3_Step ==
  (SteppingStep /\ pc' = "loop")
     => \A inc \in {AbsOf(Sub(lambdak', lambdak))}, L \in {LUsed},
           loss \in {g_func'}, eps \in {epsilon_tol'} :
           L_lambda' = IF Leq(loss, C3_Bound(g_func_old, eps, epsilon_tol, inc, L))
                       THEN Mul(Rat(4, 5), L)
                       ELSE Mul(Rat(6, 5), L)

C3_AdaptationDirection == [][C3_Step]_vars

\* a stepping iteration has taken the 1.2 branch
C3_Witness ==
  /\ pc = "loop"
  /\ it >= 2
  /\ L_lambda \notin {None, Unbound}
  /\ Mul(L_lambda, step_size) = Rat(6, 5)

\* ------------------------------------------------------------------------
\* C4  Degenerate-gradient bootstrap: an iteration with L uninitialized and
\*     a hypergradient norm of exactly 0 leaves L uninitialized, multiplies
\*     eps by 0.1, leaves lambda alone and applies neither the decay
\*     schedule nor the sufficient-decrease test.
\* ------------------------------------------------------------------------
C4_Step ==
  SkipStep =>
     /\ pc' = "loop"
     /\ L_lambda' = None
     /\ epsilon_tol' = Mul(Rat(1, 10), epsilon_tol)
     /\ lambdak' = lambdak
     /\ UNCHANGED <<g_func_old, step_size, old_epsilon_tol, incr>>

C4_DegenerateBootstrap == [][C4_Step]_vars

\* two skipped iterations in a row
C4_Witness ==
  /\ pc = "loop"
  /\ it = 2
  /\ L_lambda = None
  /\ old_grads = <<Zero, Zero>>
  /\ epsilon_tol \in {Dec(1, 5), Dec(1, 26)}

\* ------------------------------------------------------------------------
\* C5  An unrecognized tolerance-decrease mode is rejected: such a run
\*     never returns a result.
\* ------------------------------------------------------------------------
C5_BadModeRejected ==
  tolerance_decrease \notin {"exponential", "quadratic", "cubic", "exact"}
     => ~(pc = "returned" /\ status = 0)

\* ------------------------------------------------------------------------
\* C6  Fixed iteration count: a run that returns has executed exactly
\*     maxiter outer iterations (maxiter calls of h_sol_approx) and returns
\*     status 0.
\* ------------------------------------------------------------------------
C6_ExactlyMaxiter ==
  pc = "returned" => (n_inner = maxiter /\ status = 0)

\* ------------------------------------------------------------------------
\* C7  Step-controller state machine: L is uninitialized exactly as long as
\*     every hypergradient norm seen was 0; the first iteration with a
\*     nonzero norm steps with L = 5*|grad|; from then on L stays
\*     initialized and positive and only changes by the factors 0.8, 1.2.
\* ------------------------------------------------------------------------
C7_Step ==
  /\ (L_lambda' # Unbound) =>
        ((L_lambda' = None) <=> (\A i \in 1..Len(old_grads') : IsZero(old_grads'[i])))
  /\ (L_lambda = None /\ L_lambda' # None) =>
        /\ SteppingStep
        /\ step_size' = Inv(Mul(Rat(5, 1), GradNorm))
        /\ L_lambda' \in {Mul(Rat(5, 1), GradNorm), Mul(Rat(4, 1), GradNorm),
                          Mul(Rat(6, 1), GradNorm)}
  /\ (L_lambda \notin {None, Unbound}) =>
        /\ L_lambda' \in {L_lambda, Mul(Rat(4, 5), L_lambda), Mul(Rat(6, 5), L_lambda)}
        /\ Less(Zero, L_lambda')

C7_ControllerStateMachine == [][C7_Step]_vars

\* L was initialized by the second iteration after a skipped first one,
\* and a further stepping iteration followed
C7_Witness ==
  /\ pc = "loop"
  /\ Len(old_grads) = 3
  /\ IsZero(old_grads[1])
  /\ ~IsZero(old_grads[2])
  /\ L_lambda \notin {None, Unbound}
  /\ Less(Zero, L_lambda)

\* ------------------------------------------------------------------------
\* C8  Tolerance decay: the tolerance used by an iteration is never larger
\*     than the tolerance used by the iteration before it.
\* ------------------------------------------------------------------------
C8_NextCall == n_inner >= 1 /\ n_inner' = n_inner + 1

C8_NeverIncreases ==
  [][C8_NextCall => Leq(tol_passed', tol_passed)]_vars

\* C8 as amended: the tolerance used by an iteration is never larger than
\* the one used by the iteration before it, unless that iteration was the
\* first stepping iteration, came after one or more skipped iterations, and
\* the mode is not exponential or the skips took eps below the floor.
C8_Reset ==
  /\ FirstStepAfterSkips
  /\ (tolerance_decrease # "exponential" \/ Less(tol_passed, Dec(1, 24)))

C8_NeverIncreasesButReset ==
  [][(C8_NextCall /\ ~C8_Reset) => Leq(tol_passed', tol_passed)]_vars

\* exponential mode: skip, step, and a third iteration called with the
\* halved tolerance
C8_Witness ==
  /\ tolerance_decrease = "exponential"
  /\ n_inner = 3
  /\ Len(old_grads) >= 2
  /\ IsZero(old_grads[1])
  /\ ~IsZero(old_grads[2])
  /\ tol_passed = Mul(Rat(1, 2), Dec(1, 4))

\* ------------------------------------------------------------------------
\* C9  The step is always committed: every stepping iteration ends with
\*     lambda = lambda_old - (1/L)*grad, L the value before the 0.8 / 1.2
\*     adaptation, whichever way the test goes.
\* ------------------------------------------------------------------------
C9_Step ==
  SteppingStep =>
     /\ lambdak' = Sub(lambdak, Mul(Inv(LUsed), grad_lambda'))
     /\ old_lambdak' = lambdak

C9_StepCommitted == [][C9_Step]_vars

\* the test failed (L grew) and lambda still moved
C9_Witness ==
  /\ pc = "loop"
  /\ L_lambda \notin {None, Unbound}
  /\ L_lambda = Mul(Rat(6, 5), Inv(step_size))
  /\ lambdak # old_lambdak
  /\ lambdak = Sub(old_lambdak, Mul(step_size, grad_lambda))

\* ------------------------------------------------------------------------
\* C10 The previous loss is +infinity until a stepping iteration completes
\*     and changes only there, so the first stepping iteration always
\*     passes the test: L leaves it as 0.8 * 5 * |grad|.
\* ------------------------------------------------------------------------
C10_Step ==
  /\ (pc' # "entry" /\ L_lambda' = None) => g_func_old' = Inf
  /\ (pc # "entry" /\ g_func_old' # g_func_old) =>
        (SteppingStep /\ pc' = "loop" /\ g_func_old' = g_func')
  /\ (SteppingStep /\ L_lambda = None /\ pc' = "loop") =>
        L_lambda' = Mul(Dec(8, 1), Mul(Rat(5, 1), GradNorm))

C10_FirstStepPasses == [][C10_Step]_vars

\* first stepping iteration, after a skipped one, with the largest loss
C10_Witness ==
  /\ pc = "loop"
  /\ Len(old_grads) = 2
  /\ IsZero(old_grads[1])
  /\ ~IsZero(old_grads[2])
  /\ g_func = Rat(MaxLoss, 1)
  /\ g_func_old = g_func
  /\ L_lambda = Mul(Rat(4, 1), old_grads[2])

====
